---------------------------- MODULE Spec2Model ----------------------------
(***************************************************************************)
(* Model of ed_backup_gui.py: EDBackupApp.make_backup (the pre-flight      *)
(* checks and the start of the worker thread), EDBackupApp._worker_backup  *)
(* (planning, archiving, throttled progress events) and                    *)
(* EDBackupApp._poll_progress_queue (the consumer on the interface         *)
(* thread).                                                                *)
(*                                                                         *)
(* Abstractions.  A source folder is identified with the category whose    *)
(* path field names it; its planned file list is <<1, ..., n>> (the k-th   *)
(* path rglob yielded).  The destination is one folder, so an archive path *)
(* is a file name; the clock that make_backup reads for the timestamp      *)
(* shows a second of one minute.  Wall-clock time is read by the           *)
(* worker only in `now - last_push >= min_interval`: the worker keeps      *)
(* push_age, the age of last_push in milliseconds saturated at             *)
(* min_interval, and every step of the archiving loop lets some time dt    *)
(* pass.  A write can fail at every step (io).  History variables, which   *)
(* the code does not hold: handled; the field `run` of a message; and the  *)
(* worker fields since_emit (the age of the run's last progress message),  *)
(* decision (the last evaluation of the throttle), file_events and         *)
(* time_events (the progress messages of the file loop of the current      *)
(* archive, and those among them that only the interval rule caused).      *)
(* An archive file is a sequence of slots, one per entry: a writer puts    *)
(* its k-th entry in slot k, and opening the file for writing empties it.  *)
(*                                                                         *)
(* Specifications.  Spec: up to MaxClicks invocations over source folders  *)
(* that do not change.  SpecThrottle: one invocation over a large folder.  *)
(* SpecFair: Spec with fair scheduling of the threads and of the poller.   *)
(* SpecRace: two invocations over one folder with files.  SpecGrow: one    *)
(* invocation while files are added to the source folders.                 *)
(***************************************************************************)
EXTENDS Integers, Sequences, FiniteSets, TLC

VARIABLES
    is_working,      \* self._is_working
    btn_backup,      \* state of self.btn_backup: "normal" or "disabled"
    progress_bar,    \* self.progress_bar, a fraction <<numerator, denominator>>
    progress_text,   \* self.progress_text
    status,          \* self.status
    dialog,          \* the showinfo/showerror box shown last ("none" before)
    progress_queue,  \* self._progress_queue, FIFO
    handled,         \* history: the messages _poll_progress_queue has taken
    worker,          \* the worker threads started so far, in order of start
    disk,            \* the destination folder: archive path -> file
    fs,              \* the source folders: category -> [exists, files]
    sel,             \* var_journal, var_bindings, var_graphics
    dest_exists,     \* whether the folder self.dest_folder names exists
    clicks           \* make_backup invocations the user has yet to make

vars == <<is_working, btn_backup, progress_bar, progress_text, status, dialog,
          progress_queue, handled, worker, disk, fs, sel, dest_exists, clicks>>

env_vars == <<fs, sel, dest_exists>>

-----------------------------------------------------------------------------
(* Bounds *)

MaxClicks == 2       \* invocations of make_backup
MaxUnits == 5        \* units of work (files and manifests) in the source trees
MaxStamp == 2        \* distinct seconds at which make_backup reads the clock
ConcEvents == 2      \* messages of a worker that a later invocation can overlap
BigFiles == 16       \* the files of a large folder
MaxSlow == 3         \* files of an archive that can be slow to write
RaceFiles == 2       \* the files of the folder that two invocations archive
GrowUnits == 4       \* units of work in source trees that grow

(* Program constants *)

update_every == 15
min_interval == 50   \* 0.05 s, in milliseconds

-----------------------------------------------------------------------------
(* Values *)

CategoryNames == {"Journal", "Bindings", "Graphics"}

Stamps == 1..MaxStamp

\* The time that passes in one worker step: less than min_interval, or not.
Delays == {0, min_interval}

NoFile == [exists |-> FALSE, entries |-> <<>>]

ManifestEntry == <<"manifest.json", 0>>

Min(a, b) == IF a < b THEN a ELSE b

Max(a, b) == IF a < b THEN b ELSE a

\* A stretch of an archive file that nothing has written since the file was
\* truncated.
Hole == <<"", 0>>

\* A ZipFile writes each entry at its own offset (it seeks to start_dir): the
\* entry goes to slot pos of the file, whatever another writer has left there.
WriteAt(entries, pos, entry) ==
    [k \in 1..Max(Len(entries), pos) |->
        IF k = pos THEN entry ELSE IF k <= Len(entries) THEN entries[k] ELSE Hole]

RECURSIVE SumLen(_)
SumLen(s) == IF s = <<>> THEN 0 ELSE Len(Head(s).files) + SumLen(Tail(s))


Folder(n) == [exists |-> TRUE, files |-> n]

MissingFolder == [exists |-> FALSE, files |-> 0]

FileCounts == 0..(MaxUnits - 1)

\* The units of work in a tree: one per file and one per existing folder.
TreeUnits(t) ==
    LET U(c) == IF t[c].exists THEN t[c].files + 1 ELSE 0
    IN  U("Journal") + U("Bindings") + U("Graphics")

Trees ==
    {t \in [CategoryNames -> {MissingFolder} \cup {Folder(n) : n \in FileCounts}] :
        TreeUnits(t) <= MaxUnits}


-----------------------------------------------------------------------------
(* Messages of the progress queue *)

StartMsg(r) == [type |-> "start", run |-> r]

ProgressMsg(r, total, done, current) ==
    [type |-> "progress", run |-> r, total |-> total, done |-> done,
     current |-> current]

DoneMsg(r, created, skipped) ==
    [type |-> "done", run |-> r, status |-> "Done.",
     summary |-> [created |-> created, skipped |-> skipped]]

ErrorMsg(r, error) == [type |-> "error", run |-> r, error |-> error]

-----------------------------------------------------------------------------
(* _poll_progress_queue *)

\* HandleMsg whose error branch leaves the busy flag and the button alone.
HandleMsg_ErrorKeepsBusy(ui, msg) ==
    CASE msg.type = "start" ->
           [ui EXCEPT !.is_working = TRUE, !.btn_backup = "disabled",
                      !.progress_bar = <<0, 1>>, !.progress_text = "Starting",
                      !.status = "Working"]
      [] msg.type = "progress" ->
           [ui EXCEPT !.progress_bar = <<msg.done, msg.total>>,
                      !.progress_text = msg.current.name]
      [] msg.type = "done" ->
           [ui EXCEPT !.is_working = FALSE, !.btn_backup = "normal",
                      !.progress_bar = <<1, 1>>, !.progress_text = "Done.",
                      !.status = msg.status, !.dialog = "Backup complete"]
      [] msg.type = "error" ->
           [ui EXCEPT !.progress_bar = <<0, 1>>, !.progress_text = "",
                      !.status = "Error.", !.dialog = "Error"]
      [] OTHER -> ui

\* One iteration of the loop body: the effect of one message on the interface.
HandleMsg(ui, msg) ==
    CASE msg.type = "start" ->
           [ui EXCEPT !.is_working = TRUE, !.btn_backup = "disabled",
                      !.progress_bar = <<0, 1>>, !.progress_text = "Starting",
                      !.status = "Working"]
      [] msg.type = "progress" ->
           LET total == IF msg.total < 1 THEN 1 ELSE msg.total
               done  == IF msg.done < 0 THEN 0 ELSE msg.done
               frac  == IF done > total THEN <<1, 1>> ELSE <<done, total>>
           IN  [ui EXCEPT !.progress_bar = frac,
                          !.progress_text = msg.current.name]
      [] msg.type = "done" ->
           [ui EXCEPT !.is_working = FALSE, !.btn_backup = "normal",
                      !.progress_bar = <<1, 1>>, !.progress_text = "Done.",
                      !.status = msg.status, !.dialog = "Backup complete"]
      [] msg.type = "error" ->
           [ui EXCEPT !.is_working = FALSE, !.btn_backup = "normal",
                      !.progress_bar = <<0, 1>>, !.progress_text = "",
                      !.status = "Error.", !.dialog = "Error"]
      [] OTHER -> ui

\* while True: msg = get_nowait() ... until queue.Empty: the messages are
\* taken from the head of the queue, and each is handled (and recorded in
\* ui.handled) before the next is taken.
RECURSIVE Drain(_, _)
Drain(ui, q) ==
    IF q = <<>> THEN ui
    ELSE Drain([HandleMsg(ui, Head(q)) EXCEPT !.handled = Append(@, Head(q))],
               Tail(q))

poll_progress_queue ==
    LET ui == Drain([is_working |-> is_working, btn_backup |-> btn_backup,
                     progress_bar |-> progress_bar,
                     progress_text |-> progress_text,
                     status |-> status, dialog |-> dialog,
                     handled |-> handled], progress_queue)
    IN  /\ is_working' = ui.is_working
        /\ btn_backup' = ui.btn_backup
        /\ progress_bar' = ui.progress_bar
        /\ progress_text' = ui.progress_text
        /\ status' = ui.status
        /\ dialog' = ui.dialog
        /\ handled' = ui.handled
        /\ progress_queue' = <<>>
        /\ UNCHANGED <<worker, disk, env_vars, clicks>>

-----------------------------------------------------------------------------
(* make_backup *)

Digits == <<"0", "1", "2", "3", "4", "5", "6", "7", "8", "9">>

\* "%02d"
Pad2(n) == Digits[((n \div 10) % 10) + 1] \o Digits[(n % 10) + 1]

\* datetime.now().strftime("%Y-%m-%d_%H-%M-%S"), at second `now` of a minute
strftime(now) == "2026-01-01_00-00-" \o Pad2(now)

Task(name, arc_root) == [name |-> name, folder |-> name, arc_root |-> arc_root]

\* tasks, in the fixed order Journal, Bindings, Graphics
Tasks(s) ==
    (IF s.journal THEN <<Task("Journal", "journal")>> ELSE <<>>)
    \o (IF s.bindings THEN <<Task("Bindings", "bindings")>> ELSE <<>>)
    \o (IF s.graphics THEN <<Task("Graphics", "graphics")>> ELSE <<>>)

Selections == [journal : BOOLEAN, bindings : BOOLEAN, graphics : BOOLEAN]

\* warn_if_game_running that asks nothing.
warn_if_game_running_NoQuestion(running, answer) == TRUE

\* _warn_if_game_running: True when no watched process runs, else the answer
\* to "Do you want to continue anyway?"
warn_if_game_running(running, answer) == IF ~running THEN TRUE ELSE answer

\* The state of a thread just started on _worker_backup(tasks, dest, timestamp).
\* push_age is min(now - last_push, min_interval): last_push = 0.0 lies a whole
\* epoch before any value of time.time().
NewWorker(tasks, timestamp) ==
    [pc |-> "plan", tasks |-> tasks, timestamp |-> timestamp,
     existing |-> <<>>, skipped |-> <<>>, total_units |-> 0, done_units |-> 0,
     created |-> <<>>, ai |-> 0, idx |-> 0, files_in_zip |-> 0,
     file_events |-> 0, time_events |-> 0,
     push_age |-> min_interval,
     since_emit |-> min_interval,
     decision |-> [idx |-> 0, n |-> 0, elapsed |-> 0, since_emit |-> 0,
                   pushed |-> FALSE]]

\* Preflight without the check of the selection.
Preflight_NoSelectionCheck(working, s, dest, proceed) ==
    IF working THEN "busy"
    ELSE IF ~dest THEN "no_destination"
    ELSE IF ~proceed THEN "cancelled"
    ELSE "start"

\* Preflight without the check of the destination folder.
Preflight_NoDestinationCheck(working, s, dest, proceed) ==
    IF working THEN "busy"
    ELSE IF ~(s.journal \/ s.bindings \/ s.graphics) THEN "no_selection"
    ELSE IF ~proceed THEN "cancelled"
    ELSE "start"

\* The checks make_backup runs before it starts a worker, in their order:
\* the first that fails decides, "start" if none does.
Preflight(working, s, dest, proceed) ==
    IF working THEN "busy"
    ELSE IF ~(s.journal \/ s.bindings \/ s.graphics) THEN "no_selection"
    ELSE IF ~dest THEN "no_destination"
    ELSE IF ~proceed THEN "cancelled"
    ELSE "start"

make_backup(running, answer, now) ==
    LET outcome == Preflight(is_working, sel, dest_exists,
                             warn_if_game_running(running, answer))
        timestamp == strftime(now)
    IN  /\ clicks > 0
        /\ clicks' = clicks - 1
        /\ UNCHANGED <<is_working, btn_backup, progress_bar, progress_text,
                       handled, disk, env_vars>>
        /\ CASE outcome = "busy" ->
                   /\ dialog' = "Busy"
                   /\ UNCHANGED <<status, progress_queue, worker>>
              [] outcome = "no_selection" ->
                   /\ dialog' = "Select at least one category"
                   /\ UNCHANGED <<status, progress_queue, worker>>
              [] outcome = "no_destination" ->
                   /\ dialog' = "Destination folder does not exist"
                   /\ UNCHANGED <<status, progress_queue, worker>>
              [] outcome = "cancelled" ->
                   /\ status' = "Cancelled."
                   /\ UNCHANGED <<dialog, progress_queue, worker>>
              [] OTHER ->
                   /\ progress_queue' =
                          Append(progress_queue, StartMsg(Len(worker) + 1))
                   /\ worker' = Append(worker, NewWorker(Tasks(sel), timestamp))
                   /\ UNCHANGED <<dialog, status>>

-----------------------------------------------------------------------------
(* _worker_backup *)

\* iter_files(folder): the files under folder, none if it does not exist
iter_files(folder) ==
    IF ~fs[folder].exists THEN <<>> ELSE [k \in 1..fs[folder].files |-> k]

\* The planning loop: the tasks whose folder exists, each with its file list.
PlanExisting(tasks) ==
    LET kept == SelectSeq(tasks, LAMBDA t : fs[t.folder].exists)
    IN  [i \in 1..Len(kept) |->
            [name |-> kept[i].name, folder |-> kept[i].folder,
             arc_root |-> kept[i].arc_root, files |-> iter_files(kept[i].folder)]]

\* PlanSkipped that records nothing.
PlanSkipped_None(tasks) == <<>>

\* ... and the names of the tasks whose folder is missing.
PlanSkipped(tasks) ==
    LET gone == SelectSeq(tasks, LAMBDA t : ~fs[t.folder].exists)
    IN  [i \in 1..Len(gone) |-> gone[i].name]

\* TotalUnits that counts no manifest.
TotalUnits_FilesOnly(existing) ==
    LET total_units == SumLen(existing)
    IN  IF total_units <= 0 THEN 1 ELSE total_units

\* TotalUnits that counts one manifest for the whole run.
TotalUnits_OneManifest(existing) == SumLen(existing) + 1

\* total_units = total_files + len(existing); if total_units <= 0: total_units = 1
TotalUnits(existing) ==
    LET total_files == SumLen(existing)
        total_units == total_files + Len(existing)
    IN  IF total_units <= 0 THEN 1 ELSE total_units

\* ZipPath whose file name leaves the timestamp out.
ZipPath_NoTimestamp(name, timestamp) == "EliteDangerous_" \o name \o "_Backup.zip"

\* zip_path = dest / f"EliteDangerous_{name}_Backup_{timestamp}.zip"
ZipPath(name, timestamp) ==
    "EliteDangerous_" \o name \o "_Backup_" \o timestamp \o ".zip"

\* The archive files the destination folder can hold.
Paths == {ZipPath(name, strftime(now)) : name \in CategoryNames, now \in Stamps}

\* arcname = str(Path(arc_root) / p.relative_to(folder))
ArcName(arc_root, p) == <<arc_root, p>>

\* ShouldPush without the rule of the last file.
ShouldPush_NoLast(idx, n, elapsed) ==
    \/ idx % update_every = 0
    \/ elapsed >= min_interval

\* ShouldPush whose interval test compares with 0.
ShouldPush_AnyInterval(idx, n, elapsed) ==
    \/ idx % update_every = 0
    \/ elapsed >= 0
    \/ idx = n

\* (idx % update_every == 0) or (now - last_push >= min_interval)
\*   or (idx == len(files))
ShouldPush(idx, n, elapsed) ==
    \/ idx % update_every = 0
    \/ elapsed >= min_interval
    \/ idx = n

\* Time dt passes on the worker's clock.
Aged(w, dt) ==
    [w EXCEPT !.push_age = Min(@ + dt, min_interval),
              !.since_emit = Min(@ + dt, min_interval)]

\* ArchiveWritten that counts the manifest among the files of the archive.
ArchiveWritten_CountsManifest(w) ==
    [w EXCEPT !.created = Append(@, <<ZipPath(w.existing[w.ai].name, w.timestamp),
                                      w.files_in_zip + 1>>),
              !.ai = @ + 1,
              !.idx = 0,
              !.pc = IF w.ai < Len(w.existing) THEN "open" ELSE "summary"]

\* ArchiveWritten that plans again, enumerating the folders once more, before
\* the next archive.
ArchiveWritten_Replan(w) ==
    [w EXCEPT !.created = Append(@, <<ZipPath(w.existing[w.ai].name, w.timestamp),
                                      w.files_in_zip>>),
              !.existing = PlanExisting(w.tasks),
              !.ai = @ + 1,
              !.idx = 0,
              !.pc = IF w.ai < Len(w.existing) THEN "open" ELSE "summary"]

\* The end of the `with` block of the current archive: created.append(...) and
\* the next iteration of the loop over `existing`, or the summary.
ArchiveWritten(w) ==
    [w EXCEPT !.created = Append(@, <<ZipPath(w.existing[w.ai].name, w.timestamp),
                                      w.files_in_zip>>),
              !.ai = @ + 1,
              !.idx = 0,
              !.pc = IF w.ai < Len(w.existing) THEN "open" ELSE "summary"]

\* Raise caught inside the loop: the error is reported and the worker goes on.
Raise_Continue(r, w, d) ==
    /\ progress_queue' =
           Append(progress_queue, ErrorMsg(r, "Failed to create ZIP file(s)"))
    /\ worker' = [worker EXCEPT ![r] = w]
    /\ disk' = d

\* Raise that removes the archive being written.
Raise_Cleanup(r, w, d) ==
    /\ progress_queue' =
           Append(progress_queue, ErrorMsg(r, "Failed to create ZIP file(s)"))
    /\ worker' = [worker EXCEPT ![r] = [w EXCEPT !.pc = "end"]]
    /\ disk' = [d EXCEPT ![ZipPath(w.existing[w.ai].name, w.timestamp)] =
                    [exists |-> FALSE, entries |-> <<>>]]

\* An exception leaves the `with` block and the loops, with the destination
\* as the failed step left it, d: except Exception as e: put({"type": "error"}).
Raise(r, w, d) ==
    /\ progress_queue' =
           Append(progress_queue, ErrorMsg(r, "Failed to create ZIP file(s)"))
    /\ worker' = [worker EXCEPT ![r] = [w EXCEPT !.pc = "end"]]
    /\ disk' = d

\* WorkerPlan in which the worker puts the start message itself.
WorkerPlan_PutsStart(r) ==
    /\ worker[r].pc = "plan"
    /\ LET w == worker[r]
           existing == PlanExisting(w.tasks)
           skipped == PlanSkipped(w.tasks)
       IN  IF existing = <<>>
           THEN /\ progress_queue' =
                       Append(Append(progress_queue, StartMsg(r)),
                              ErrorMsg(r, "No ZIP files created"))
                /\ worker' = [worker EXCEPT ![r] =
                       [w EXCEPT !.skipped = skipped, !.pc = "end"]]
           ELSE /\ worker' = [worker EXCEPT ![r] =
                       [w EXCEPT !.existing = existing, !.skipped = skipped,
                                 !.total_units = TotalUnits(existing),
                                 !.done_units = 0, !.ai = 1, !.pc = "open"]]
                /\ progress_queue' = Append(progress_queue, StartMsg(r))
    /\ UNCHANGED <<is_working, btn_backup, progress_bar, progress_text, status,
                   dialog, handled, disk, env_vars, clicks>>

\* Planning: lines 396-416.
WorkerPlan(r) ==
    /\ worker[r].pc = "plan"
    /\ LET w == worker[r]
           existing == PlanExisting(w.tasks)
           skipped == PlanSkipped(w.tasks)
       IN  IF existing = <<>>
           THEN /\ progress_queue' =
                       Append(progress_queue, ErrorMsg(r, "No ZIP files created"))
                /\ worker' = [worker EXCEPT ![r] =
                       [w EXCEPT !.skipped = skipped, !.pc = "end"]]
           ELSE /\ worker' = [worker EXCEPT ![r] =
                       [w EXCEPT !.existing = existing, !.skipped = skipped,
                                 !.total_units = TotalUnits(existing),
                                 !.done_units = 0, !.ai = 1, !.pc = "open"]]
                /\ UNCHANGED progress_queue
    /\ UNCHANGED <<is_working, btn_backup, progress_bar, progress_text, status,
                   dialog, handled, disk, env_vars, clicks>>

\* The head of one iteration over `existing`: open the archive for writing,
\* write manifest.json, count it and report it (lines 424-444).
\* io: "ok", or the step that raises.
WorkerOpen(r, dt, io) ==
    /\ worker[r].pc = "open"
    /\ LET w == Aged(worker[r], dt)
           e == w.existing[w.ai]
           zip_path == ZipPath(e.name, w.timestamp)
           done_units == w.done_units + 1
           opened == [w EXCEPT !.files_in_zip = 0, !.done_units = done_units,
                               !.idx = 0, !.since_emit = 0, !.pc = "files",
                               !.file_events = 0, !.time_events = 0]
       IN  CASE io = "open_fails" -> Raise(r, w, disk)
             [] io = "write_fails" ->
                  Raise(r, w, [disk EXCEPT ![zip_path] =
                                  [exists |-> TRUE, entries |-> <<>>]])
             [] OTHER ->
                  /\ disk' = [disk EXCEPT ![zip_path] =
                                 [exists |-> TRUE, entries |-> <<ManifestEntry>>]]
                  /\ progress_queue' = Append(progress_queue,
                         ProgressMsg(r, w.total_units, done_units,
                                     [name |-> e.name, item |-> 0]))
                  /\ worker' = [worker EXCEPT ![r] =
                         IF e.files = <<>> THEN ArchiveWritten(opened) ELSE opened]
    /\ UNCHANGED <<is_working, btn_backup, progress_bar, progress_text, status,
                   dialog, handled, env_vars, clicks>>

\* One iteration of the loop over the files of the current archive
\* (lines 447-465), and the end of the archive after its last file (467).
WorkerFile(r, dt, io) ==
    /\ worker[r].pc = "files"
    /\ LET w == Aged(worker[r], dt)
           e == w.existing[w.ai]
           zip_path == ZipPath(e.name, w.timestamp)
           idx == w.idx + 1
           n == Len(e.files)
           p == e.files[idx]
           done_units == w.done_units + 1
           push == ShouldPush(idx, n, w.push_age)
           wrote == [w EXCEPT !.idx = idx, !.files_in_zip = @ + 1,
                              !.done_units = done_units,
                              !.push_age = IF push THEN 0 ELSE @,
                              !.since_emit = IF push THEN 0 ELSE @,
                              !.file_events = IF push THEN @ + 1 ELSE @,
                              !.time_events =
                                  IF push /\ idx % update_every # 0 /\ idx # n
                                  THEN @ + 1 ELSE @,
                              !.decision = [idx |-> idx, n |-> n,
                                            elapsed |-> w.push_age,
                                            since_emit |-> w.since_emit,
                                            pushed |-> push]]
       IN  IF io # "ok"
           THEN Raise(r, w, disk)
           ELSE /\ disk' = [disk EXCEPT ![zip_path].entries =
                               WriteAt(@, idx + 1, ArcName(e.arc_root, p))]
                /\ progress_queue' =
                       IF push
                       THEN Append(progress_queue,
                                ProgressMsg(r, w.total_units, done_units,
                                            [name |-> e.name, item |-> p]))
                       ELSE progress_queue
                /\ worker' = [worker EXCEPT ![r] =
                       IF idx = n THEN ArchiveWritten(wrote) ELSE wrote]
    /\ UNCHANGED <<is_working, btn_backup, progress_bar, progress_text, status,
                   dialog, handled, env_vars, clicks>>

\* The summary and the done message (lines 469-481).
WorkerSummary(r) ==
    /\ worker[r].pc = "summary"
    /\ progress_queue' = Append(progress_queue,
           DoneMsg(r, worker[r].created, worker[r].skipped))
    /\ worker' = [worker EXCEPT ![r].pc = "end"]
    /\ UNCHANGED <<is_working, btn_backup, progress_bar, progress_text, status,
                   dialog, handled, disk, env_vars, clicks>>

-----------------------------------------------------------------------------
(* The program *)

\* The application after __init__, over an empty destination folder.
InitApp ==
    /\ is_working = FALSE
    /\ btn_backup = "normal"
    /\ progress_bar = <<0, 1>>
    /\ progress_text = ""
    /\ status = "Ready."
    /\ dialog = "none"
    /\ progress_queue = <<>>
    /\ handled = <<>>
    /\ worker = <<>>
    /\ disk = [p \in Paths |-> NoFile]

\* make_backup reads the folders of the selected categories only: the others
\* are left missing.
OnlySelectedExist ==
    \A t \in {Task("Journal", "journal"), Task("Bindings", "bindings"),
              Task("Graphics", "graphics")} :
        fs[t.folder].exists => \E i \in DOMAIN Tasks(sel) : Tasks(sel)[i] = t

Init ==
    /\ InitApp
    /\ sel \in Selections
    /\ dest_exists \in BOOLEAN
    /\ clicks \in 1..MaxClicks
    /\ fs \in Trees
    /\ OnlySelectedExist
    \* Several invocations are made over small trees only, so that the
    \* interleavings of their workers stay enumerable.
    /\ (clicks - 1) * (TreeUnits(fs) + 1) <= ConcEvents

\* datetime.now(): the seconds matter only up to equality, so make_backup
\* reads one a former run read, or the next unused one.
NextStamps ==
    {t \in Stamps :
        t = 1 \/ \E r \in DOMAIN worker : worker[r].timestamp = strftime(t - 1)}

Next ==
    \/ \E running \in BOOLEAN, answer \in BOOLEAN, now \in NextStamps :
          make_backup(running, answer, now)
    \/ poll_progress_queue
    \/ \E r \in DOMAIN worker : WorkerPlan(r)
    \/ \E r \in DOMAIN worker, dt \in Delays,
          io \in {"ok", "open_fails", "write_fails"} : WorkerOpen(r, dt, io)
    \/ \E r \in DOMAIN worker, dt \in Delays, io \in {"ok", "write_fails"} :
          WorkerFile(r, dt, io)
    \/ \E r \in DOMAIN worker : WorkerSummary(r)

Spec == Init /\ [][Next]_vars

\* A step of the thread of run r.
WorkerStep(r) ==
    /\ r \in DOMAIN worker
    /\ \/ WorkerPlan(r)
       \/ \E dt \in Delays, io \in {"ok", "open_fails", "write_fails"} :
             WorkerOpen(r, dt, io)
       \/ \E dt \in Delays, io \in {"ok", "write_fails"} : WorkerFile(r, dt, io)
       \/ WorkerSummary(r)

\* Scheduling: a started thread that can take a step takes one (nothing in
\* _worker_backup waits for another thread), and _poll_progress_queue runs
\* again 80 ms after each of its runs (self.after at its end).
Fairness ==
    /\ WF_vars(poll_progress_queue)
    /\ \A r \in 1..MaxClicks : WF_vars(WorkerStep(r))

\* Whether a run ends does not depend on the clock, which only the throttle
\* reads: in the fair specification no time passes in a worker step.
NextFair ==
    \/ \E running \in BOOLEAN, answer \in BOOLEAN, now \in NextStamps :
          make_backup(running, answer, now)
    \/ poll_progress_queue
    \/ \E r \in DOMAIN worker : WorkerPlan(r)
    \/ \E r \in DOMAIN worker, io \in {"ok", "open_fails", "write_fails"} :
          WorkerOpen(r, 0, io)
    \/ \E r \in DOMAIN worker, io \in {"ok", "write_fails"} :
          WorkerFile(r, 0, io)
    \/ \E r \in DOMAIN worker : WorkerSummary(r)

SpecFair == Init /\ [][NextFair]_vars /\ Fairness

-----------------------------------------------------------------------------
(* The throttle over a large folder: one invocation, a Journal folder of   *)
(* BigFiles files, and a Bindings folder that is missing, empty or small.  *)
(* Only the first MaxSlow files of an archive can take min_interval or     *)
(* longer to write.                                                        *)

BigTrees ==
    {t \in [CategoryNames -> {MissingFolder, Folder(0), Folder(2),
                              Folder(BigFiles)}] :
        t["Journal"] = Folder(BigFiles) /\ t["Bindings"] # Folder(BigFiles)
            /\ t["Graphics"] = MissingFolder}

InitThrottle ==
    /\ InitApp
    /\ sel \in Selections
    /\ dest_exists = TRUE
    /\ clicks = 1
    /\ fs \in BigTrees
    /\ OnlySelectedExist

NextThrottle ==
    \/ \E running \in BOOLEAN, answer \in BOOLEAN, now \in NextStamps :
          make_backup(running, answer, now)
    \/ poll_progress_queue
    \/ \E r \in DOMAIN worker : WorkerPlan(r)
    \/ \E r \in DOMAIN worker, dt \in Delays,
          io \in {"ok", "open_fails", "write_fails"} : WorkerOpen(r, dt, io)
    \/ \E r \in DOMAIN worker, dt \in Delays, io \in {"ok", "write_fails"} :
          /\ dt = 0 \/ worker[r].idx < MaxSlow
          /\ WorkerFile(r, dt, io)
    \/ \E r \in DOMAIN worker : WorkerSummary(r)

SpecThrottle == InitThrottle /\ [][NextThrottle]_vars

-----------------------------------------------------------------------------
(* One invocation of make_backup while another process (the game) adds     *)
(* files to the source folders.                                            *)

\* A file appears in an existing source folder.
FolderGrows(c) ==
    /\ fs[c].exists
    /\ TreeUnits(fs) < GrowUnits
    /\ fs' = [fs EXCEPT ![c].files = @ + 1]
    /\ UNCHANGED <<is_working, btn_backup, progress_bar, progress_text, status,
                   dialog, progress_queue, handled, worker, disk, sel,
                   dest_exists, clicks>>

InitGrow ==
    /\ InitApp
    /\ sel \in Selections
    /\ dest_exists = TRUE
    /\ clicks = 1
    /\ fs \in Trees
    /\ TreeUnits(fs) <= GrowUnits
    /\ OnlySelectedExist

NextGrow ==
    \/ \E running \in BOOLEAN, answer \in BOOLEAN, now \in NextStamps :
          make_backup(running, answer, now)
    \/ poll_progress_queue
    \/ \E r \in DOMAIN worker : WorkerPlan(r)
    \/ \E r \in DOMAIN worker, dt \in Delays,
          io \in {"ok", "open_fails", "write_fails"} : WorkerOpen(r, dt, io)
    \/ \E r \in DOMAIN worker, dt \in Delays, io \in {"ok", "write_fails"} :
          WorkerFile(r, dt, io)
    \/ \E r \in DOMAIN worker : WorkerSummary(r)
    \/ \E c \in CategoryNames : FolderGrows(c)

SpecGrow == InitGrow /\ [][NextGrow]_vars

-----------------------------------------------------------------------------
(* Two invocations of make_backup over a Journal folder of RaceFiles files. *)

InitRace ==
    /\ InitApp
    /\ sel = [journal |-> TRUE, bindings |-> FALSE, graphics |-> FALSE]
    /\ dest_exists = TRUE
    /\ clicks = 2
    /\ fs = [c \in CategoryNames |->
                IF c = "Journal" THEN Folder(RaceFiles) ELSE MissingFolder]

SpecRace == InitRace /\ [][Next]_vars

-----------------------------------------------------------------------------
(* The messages of a run *)

\* Every message put so far, in the order of the puts.
Emitted == handled \o progress_queue

OfRun(log, r) == SelectSeq(log, LAMBDA m : m.run = r)

OfType(log, type) == SelectSeq(log, LAMBDA m : m.type = type)

IsTerminal(m) == m.type \in {"done", "error"}

Last(s) == s[Len(s)]

\* start, then progress messages, then at most one terminal message, last.
StartProgressTerminal(ev) ==
    ev # <<>> =>
        /\ ev[1].type = "start"
        /\ \A i \in 2..Len(ev) :
              /\ ev[i].type # "start"
              /\ IsTerminal(ev[i]) => i = Len(ev)

\* The run's terminal message has been handled.
Over(r) == \E i \in DOMAIN handled : handled[i].run = r /\ IsTerminal(handled[i])

\* The units of the first i planned archives: their files and manifests.
RECURSIVE CumUnits(_, _)
CumUnits(existing, i) ==
    IF i = 0 THEN 0
    ELSE CumUnits(existing, i - 1) + Len(existing[i].files) + 1

-----------------------------------------------------------------------------
(* C1 as claimed: at most one backup run is ever in flight: while an accepted run has *)
(* not had its terminal message handled, no other run is accepted (its     *)
(* make_backup is answered "Busy", puts no start message and starts no     *)
(* worker).                                                                *)
C1_OneRunInFlight ==
    Cardinality({r \in DOMAIN worker : ~Over(r)}) <= 1

-----------------------------------------------------------------------------
(* C2: the messages of every accepted run, as put on the queue and as      *)
(* handled by the consumer, are one start, then progress messages, then    *)
(* one terminal message (done or error), and nothing after it; the         *)
(* consumer handles them in the order of the puts.                         *)
C2_StartProgressTerminal ==
    \A r \in DOMAIN worker :
        LET ev == OfRun(Emitted, r)
        IN  /\ ev # <<>>
            /\ StartProgressTerminal(ev)
            /\ StartProgressTerminal(OfRun(handled, r))
            /\ worker[r].pc = "end" <=> IsTerminal(Last(ev))
            /\ Len(OfType(ev, "done")) + Len(OfType(ev, "error")) <= 1

\* A run handled to its done message, with a message of another run handled
\* between its progress message and its done message.
C2_Witness ==
    \E i, j, k \in DOMAIN handled :
        /\ i < j /\ j < k
        /\ handled[i].type = "progress"
        /\ handled[k].type = "done"
        /\ handled[k].run = handled[i].run
        /\ handled[j].run # handled[i].run

-----------------------------------------------------------------------------
(* C3: within a run the done counts of its progress messages never         *)
(* decrease and never exceed total, and in a run that ends with done the   *)
(* last progress message has done = total.                                 *)
C3_DoneCounts ==
    \A r \in DOMAIN worker :
        LET ev == OfRun(Emitted, r)
            pr == OfType(ev, "progress")
        IN  /\ \A i \in DOMAIN pr : pr[i].done <= pr[i].total
            /\ \A i, j \in DOMAIN pr : i <= j => pr[i].done <= pr[j].done
            /\ OfType(ev, "done") # <<>> =>
                  pr # <<>> /\ Last(pr).done = Last(pr).total

C3_Witness ==
    \E r \in DOMAIN worker :
        LET ev == OfRun(Emitted, r)
            pr == OfType(ev, "progress")
        IN  /\ OfType(ev, "done") # <<>>
            /\ Len(pr) >= 3
            /\ Len(pr) < Last(pr).total

-----------------------------------------------------------------------------
(* C4: total is computed once, when planning is over and before the run    *)
(* opens an archive; it is the sum over the planned archives of (files +   *)
(* 1), and every progress message of the run carries it.                   *)
C4_TotalState ==
    \A r \in DOMAIN worker :
        LET w == worker[r]
            pr == OfType(OfRun(Emitted, r), "progress")
        IN  /\ w.pc = "plan" => pr = <<>> /\ w.created = <<>> /\ w.ai = 0
            /\ w.existing # <<>> =>
                  w.total_units = CumUnits(w.existing, Len(w.existing))
            /\ \A i \in DOMAIN pr : pr[i].total = w.total_units

C4_TotalStep ==
    \A r \in DOMAIN worker :
        worker'[r].total_units # worker[r].total_units =>
            /\ worker[r].pc = "plan"
            /\ worker'[r].existing = PlanExisting(worker[r].tasks)
            /\ worker'[r].created = <<>>

C4_TotalFixed == []C4_TotalState /\ [][C4_TotalStep]_vars

C4_Witness ==
    \E r \in DOMAIN worker :
        /\ Len(worker[r].existing) >= 2
        /\ worker[r].total_units >= 4
        /\ Len(OfType(OfRun(Emitted, r), "progress")) >= 3

-----------------------------------------------------------------------------
Range(s) == {s[i] : i \in DOMAIN s}

NothingSelected == ~(sel.journal \/ sel.bindings \/ sel.graphics)

NoArchiveOnDisk == \A p \in Paths : disk[p] = NoFile

NoZipError(r) == ErrorMsg(r, "No ZIP files created")

FailedError(r) == ErrorMsg(r, "Failed to create ZIP file(s)")

\* The run has put the error message of a failed write.
Failed(r) == \E i \in DOMAIN Emitted : Emitted[i] = FailedError(r)

(* C5 as amended: when every selected folder is missing, the run ends with *)
(* the single error message "No ZIP files created": the executor does not  *)
(* run, no progress message is put and no archive is created.  When no     *)
(* category is selected, make_backup refuses before it starts a worker     *)
(* (an error box): no message at all is put and no archive is created.     *)
C5_NothingToArchive ==
    /\ NothingSelected =>
          worker = <<>> /\ Emitted = <<>> /\ NoArchiveOnDisk
    /\ \A r \in DOMAIN worker :
          PlanExisting(worker[r].tasks) = <<>> =>
              /\ worker[r].pc \in {"plan", "end"}
              /\ worker[r].ai = 0 /\ worker[r].created = <<>>
              /\ OfRun(Emitted, r) =
                    IF worker[r].pc = "plan" THEN <<StartMsg(r)>>
                    ELSE <<StartMsg(r), NoZipError(r)>>
              /\ NoArchiveOnDisk

C5_Witness ==
    \E r \in DOMAIN worker :
        /\ Len(worker[r].tasks) >= 2
        /\ Len(worker[r].skipped) = Len(worker[r].tasks)
        /\ Over(r)
        /\ dialog = "Error"

(* C5 as claimed: also with no category selected, the invocation ends with *)
(* exactly one error message on the queue.                                 *)
C5_Original ==
    /\ \A r \in DOMAIN worker :
          (PlanExisting(worker[r].tasks) = <<>> /\ worker[r].pc = "end") =>
              OfRun(Emitted, r) = <<StartMsg(r), NoZipError(r)>>
    /\ (NothingSelected /\ dialog = "Select at least one category") =>
          Len(OfType(Emitted, "error")) = 1

-----------------------------------------------------------------------------
(* C6 as amended: after planning, a selected category whose folder is      *)
(* missing is in the skip list, is no planned archive, has no archive file *)
(* and adds nothing to total; when another selected folder exists the run  *)
(* does not end with "No ZIP files created": it ends with done, whose      *)
(* summary lists the skip, unless a write fails (C7).                      *)
C6_SkipMissing ==
    \A r \in DOMAIN worker :
        LET w == worker[r]
            ev == OfRun(Emitted, r)
        IN  \A i \in DOMAIN w.tasks :
                (w.pc # "plan" /\ ~fs[w.tasks[i].folder].exists) =>
                    /\ w.tasks[i].name \in Range(w.skipped)
                    /\ \A k \in DOMAIN w.existing :
                          w.existing[k].name # w.tasks[i].name
                    /\ \A k \in DOMAIN w.created :
                          w.created[k][1] #
                              ZipPath(w.tasks[i].name, w.timestamp)
                    /\ disk[ZipPath(w.tasks[i].name, w.timestamp)] = NoFile
                    /\ w.existing # <<>> =>
                          w.total_units = CumUnits(w.existing, Len(w.existing))
                    /\ (w.existing # <<>> /\ w.pc = "end") =>
                          \/ /\ Last(ev).type = "done"
                             /\ w.tasks[i].name \in Range(Last(ev).summary.skipped)
                             /\ Len(Last(ev).summary.created) = Len(w.existing)
                          \/ Last(ev) = FailedError(r)

C6_Witness ==
    \E r \in DOMAIN worker :
        /\ worker[r].skipped # <<>>
        /\ Over(r)
        /\ Last(OfRun(handled, r)).type = "done"
        /\ Last(OfRun(handled, r)).summary.skipped = worker[r].skipped
        /\ ~NoArchiveOnDisk

(* C6 as claimed: with a folder skipped and another existing, the run ends *)
(* with done.                                                              *)
C6_Original ==
    \A r \in DOMAIN worker :
        (worker[r].pc = "end" /\ worker[r].skipped # <<>>
            /\ worker[r].existing # <<>>) =>
                Last(OfRun(Emitted, r)).type = "done"

-----------------------------------------------------------------------------
(* C7: a failure while an archive is created or written aborts the run:    *)
(* the run's one terminal message is the error (no done), the worker stops *)
(* there, opening no later archive, and the failing step removes nothing:  *)
(* the archives on disk, the one being written included, stay as they are. *)
C7_FailedState ==
    \A r \in DOMAIN worker :
        Failed(r) =>
            /\ worker[r].pc = "end"
            /\ Last(OfRun(Emitted, r)) = FailedError(r)
            /\ OfType(OfRun(Emitted, r), "done") = <<>>
            /\ Len(OfType(OfRun(Emitted, r), "error")) = 1
            /\ Len(worker[r].created) < Len(worker[r].existing)
            /\ worker[r].ai = Len(worker[r].created) + 1

C7_FailedStep ==
    \A r \in DOMAIN worker :
        /\ (~Failed(r) /\ Failed(r)') =>
              LET w == worker[r]
                  cur == ZipPath(w.existing[w.ai].name, w.timestamp)
              IN  /\ worker'[r].created = w.created
                  /\ worker'[r].ai = w.ai
                  /\ \A p \in Paths :
                        \/ disk'[p] = disk[p]
                        \/ /\ p = cur /\ w.pc = "open"
                           /\ disk'[p] = [exists |-> TRUE, entries |-> <<>>]
        /\ worker[r].pc = "end" => worker'[r] = worker[r]

C7_AbortOnFailure == []C7_FailedState /\ [][C7_FailedStep]_vars

C7_Witness ==
    \E r \in DOMAIN worker :
        LET w == worker[r]
        IN  /\ Failed(r)
            /\ Len(w.created) >= 1
            /\ disk[w.created[1][1]].exists
            /\ disk[ZipPath(w.existing[w.ai].name, w.timestamp)].exists
            /\ Len(disk[ZipPath(w.existing[w.ai].name, w.timestamp)].entries)
                  \in 1..Len(w.existing[w.ai].files)

-----------------------------------------------------------------------------
(* C8: when the destination folder does not exist, make_backup refuses     *)
(* before it starts a worker: no message is put, no worker is created, no  *)
(* archive is created.                                                     *)
C8_NoDestination ==
    ~dest_exists => worker = <<>> /\ Emitted = <<>> /\ NoArchiveOnDisk

C8_Witness ==
    ~dest_exists /\ dialog = "Destination folder does not exist"

-----------------------------------------------------------------------------
\* The last progress message the run has put for the archive of `name`.
LastProgressFor(r, name) ==
    Last(SelectSeq(OfType(OfRun(Emitted, r), "progress"),
                   LAMBDA m : m.current.name = name))

(* C9: for every archive a run has written, the last progress message put  *)
(* for it counts all its units: its done is the sum of (files + 1) over    *)
(* that archive and the planned archives before it.                        *)
C9_LastProgressOfArchive ==
    \A r \in DOMAIN worker :
        \A i \in DOMAIN worker[r].created :
            LET name == worker[r].existing[i].name
            IN  /\ worker[r].created[i][1] = ZipPath(name, worker[r].timestamp)
                /\ \E k \in DOMAIN Emitted :
                      /\ Emitted[k].run = r /\ Emitted[k].type = "progress"
                      /\ Emitted[k].current.name = name
                /\ LastProgressFor(r, name).done = CumUnits(worker[r].existing, i)

C9_Witness ==
    \E r \in DOMAIN worker :
        LET w == worker[r]
        IN  /\ w.pc = "end" /\ ~Failed(r)
            /\ Len(w.created) >= 2
            /\ \E i \in DOMAIN w.existing : w.existing[i].files = <<>>
            /\ \E i \in DOMAIN w.existing : Len(w.existing[i].files) >= 3
            /\ Len(OfType(OfRun(Emitted, r), "progress")) < w.total_units

-----------------------------------------------------------------------------
\* ceil(n / update_every)
CeilOfEvery(n) == (n + update_every - 1) \div update_every

(* C10 as amended: while the files of an archive are written, a progress   *)
(* message is put after a file only if the file's 1-based index is a       *)
(* multiple of 15, or at least 50 ms have passed since last_push (the last *)
(* put of the file loop in this run, 0.0 before the first: the put for a   *)
(* manifest does not count), or it is the last file of the archive; so an  *)
(* archive of n files has at most ceil(n/15) + (the puts that only the     *)
(* interval rule caused) + 1 such messages.                                *)
C10_Throttle ==
    \A r \in DOMAIN worker :
        LET w == worker[r]
            d == w.decision
        IN  /\ d.pushed =>
                  \/ d.idx % update_every = 0
                  \/ d.elapsed >= min_interval
                  \/ d.idx = d.n
            /\ w.file_events <= CeilOfEvery(d.n) + w.time_events + 1

C10_Witness ==
    \E r \in DOMAIN worker :
        LET w == worker[r]
            d == w.decision
        IN  /\ d.n = BigFiles
            /\ d.idx = update_every /\ d.pushed /\ d.elapsed < min_interval
            /\ w.file_events = 3 /\ w.time_events = 2

(* C10 as claimed: the 50 ms are counted from the run's last progress      *)
(* message, whichever it was.                                              *)
C10_Original ==
    \A r \in DOMAIN worker :
        LET d == worker[r].decision
        IN  d.pushed =>
                \/ d.idx % update_every = 0
                \/ d.since_emit >= min_interval
                \/ d.idx = d.n

-----------------------------------------------------------------------------
\* The done message of the run, once it is put.
DoneOf(r) == Last(OfType(OfRun(Emitted, r), "done"))

Succeeded(r) == OfType(OfRun(Emitted, r), "done") # <<>>

\* The scenario: Journal with 3 files, Bindings missing, Graphics empty.
Scenario ==
    /\ sel = [journal |-> TRUE, bindings |-> TRUE, graphics |-> TRUE]
    /\ fs = [c \in CategoryNames |->
                CASE c = "Journal" -> Folder(3)
                  [] c = "Bindings" -> MissingFolder
                  [] OTHER -> Folder(0)]

(* C11: the done message of a run lists one archive result per planned     *)
(* archive, in planning order (the order of the selected categories whose  *)
(* folder exists), each with the archive's path and the number of its      *)
(* planned files, and one skip record per selected category whose folder   *)
(* is missing; for Journal with 3 files, Bindings missing and Graphics     *)
(* empty: 2 archives (3 and 0 files), 1 skip, total = 5, final done = 5.   *)
C11_Summary ==
    \A r \in DOMAIN worker :
        Succeeded(r) =>
            LET w == worker[r]
                created == DoneOf(r).summary.created
                skipped == DoneOf(r).summary.skipped
                there == SelectSeq(w.tasks, LAMBDA t : fs[t.folder].exists)
                gone == SelectSeq(w.tasks, LAMBDA t : ~fs[t.folder].exists)
                pr == OfType(OfRun(Emitted, r), "progress")
            IN  /\ Len(created) = Len(there)
                /\ \A i \in DOMAIN created :
                      /\ created[i][1] = ZipPath(there[i].name, w.timestamp)
                      /\ created[i][2] = fs[there[i].folder].files
                      /\ created[i][2] = Len(w.existing[i].files)
                /\ Len(skipped) = Len(gone)
                /\ \A i \in DOMAIN skipped : skipped[i] = gone[i].name
                /\ Scenario =>
                      /\ Len(created) = 2
                      /\ created[1] = <<ZipPath("Journal", w.timestamp), 3>>
                      /\ created[2] = <<ZipPath("Graphics", w.timestamp), 0>>
                      /\ skipped = <<"Bindings">>
                      /\ \A i \in DOMAIN pr : pr[i].total = 5
                      /\ Last(pr).done = 5

C11_Witness ==
    /\ Scenario
    /\ \E r \in DOMAIN worker : Succeeded(r) /\ Over(r)
    /\ dialog = "Backup complete"

-----------------------------------------------------------------------------
Idle == is_working = FALSE /\ btn_backup = "normal"

\* The terminal messages of run r that the consumer has handled.
TerminalsHandled(r) == SelectSeq(OfRun(handled, r), IsTerminal)

(* C12: every accepted run terminates: its worker ends having put exactly  *)
(* one terminal message, the consumer handles that message, and the        *)
(* interface is idle again (busy flag false, backup button enabled).       *)
C12_Terminates ==
    \A r \in 1..MaxClicks :
        (r \in DOMAIN worker) ~>
            /\ r \in DOMAIN worker
            /\ worker[r].pc = "end"
            /\ Len(TerminalsHandled(r)) = 1
            /\ Len(SelectSeq(OfRun(Emitted, r), IsTerminal)) = 1
            /\ Idle

\* Two runs, one ended with done and one with error, both handled, and the
\* interface idle.
C12_Witness ==
    /\ Len(worker) = 2
    /\ \A r \in DOMAIN worker : worker[r].pc = "end" /\ Over(r)
    /\ \E r \in DOMAIN worker : Succeeded(r)
    /\ \E r \in DOMAIN worker : Failed(r)
    /\ Idle

-----------------------------------------------------------------------------
\* The entries of the archive of a planned folder.
PlannedEntries(e) ==
    <<ManifestEntry>> \o [k \in 1..Len(e.files) |-> ArcName(e.arc_root, e.files[k])]

\* The step in which run r ends the writing of an archive.
Closes(r) == Len(worker'[r].created) > Len(worker[r].created)

(* C13 as claimed: when a run has written an archive (it leaves the `with` *)
(* block and records the archive in `created`), the entries of the archive *)
(* file are manifest.json and one entry arc_root/relative-path for each    *)
(* planned file, each once and nothing else.                               *)
C13_EntriesStep ==
    \A r \in DOMAIN worker :
        Closes(r) =>
            LET e == worker[r].existing[worker[r].ai]
            IN  disk'[ZipPath(e.name, worker[r].timestamp)].entries =
                    PlannedEntries(e)

C13_Entries == [][C13_EntriesStep]_vars

-----------------------------------------------------------------------------
(* The thread of a step.  make_backup and _poll_progress_queue run on the  *)
(* interactive thread: their steps are the ones that change clicks, the    *)
(* widgets or `handled`, or start a worker.  A step of the worker thread   *)
(* of run r changes worker[r].                                             *)
InteractiveStep ==
    \/ clicks' # clicks
    \/ handled' # handled
    \/ <<is_working, btn_backup, progress_bar, progress_text, status, dialog>>' #
           <<is_working, btn_backup, progress_bar, progress_text, status, dialog>>
    \/ Len(worker') # Len(worker)

StepOfWorker(r) == r \in DOMAIN worker /\ worker'[r] # worker[r]

\* The step puts message m, and nothing else, on the queue.
Puts(m) == progress_queue' = Append(progress_queue, m)

\* The step takes messages from the queue.
Dequeues ==
    \E i \in DOMAIN progress_queue :
        i > Len(progress_queue') \/ progress_queue'[i] # progress_queue[i]

(* C14 as amended: the worker threads are the sole writers of archive      *)
(* files and the sole producers of the progress, done and error messages,  *)
(* each of its own run; the start message of a run is put by make_backup,  *)
(* on the interactive thread, in the step that starts the worker; the      *)
(* interactive thread (_poll_progress_queue) is the sole consumer: no      *)
(* worker takes a message from the queue.                                  *)
C14_ThreadsStep ==
    /\ disk' # disk =>
          ~InteractiveStep /\ \E r \in DOMAIN worker : StepOfWorker(r)
    /\ progress_queue' # progress_queue =>
          \/ /\ Dequeues
             /\ progress_queue' = <<>>
             /\ handled' = handled \o progress_queue
             /\ worker' = worker /\ disk' = disk
          \/ /\ Puts(StartMsg(Len(worker) + 1))
             /\ clicks' = clicks - 1
             /\ Len(worker') = Len(worker) + 1
             /\ \A r \in DOMAIN worker : ~StepOfWorker(r)
          \/ \E r \in DOMAIN worker :
                /\ StepOfWorker(r)
                /\ ~InteractiveStep
                /\ \E m \in {Last(progress_queue')} :
                      Puts(m) /\ m.run = r /\ m.type \in {"progress", "done", "error"}
    /\ Len(worker') # Len(worker) => Puts(StartMsg(Len(worker')))

C14_Threads == [][C14_ThreadsStep]_vars

\* Every kind of message has been put and handled, and an archive written.
C14_Witness ==
    /\ \A type \in {"start", "progress", "done", "error"} :
          OfType(handled, type) # <<>>
    /\ ~NoArchiveOnDisk
    /\ progress_queue = <<>>

(* C14 as claimed: every message on the queue, the start message included, *)
(* is put by a worker thread and none by the interactive thread.           *)
C14_OriginalStep ==
    Len(progress_queue') > Len(progress_queue) =>
        ~InteractiveStep /\ \E r \in DOMAIN worker : StepOfWorker(r)

C14_Original == [][C14_OriginalStep]_vars

-----------------------------------------------------------------------------
\* The timestamp strings make_backup can read.
Timestamps == {strftime(now) : now \in Stamps}

\* The archive paths of run r: one per task.
PathsOf(r) ==
    {ZipPath(worker[r].tasks[i].name, worker[r].timestamp) :
        i \in DOMAIN worker[r].tasks}

(* C15: the archive path is injective in (category, timestamp): distinct   *)
(* categories of one run, and runs with different timestamp strings, have  *)
(* different archive paths; so a run writes only its own paths and never   *)
(* changes a file that a run with a different timestamp has written.       *)
C15_State ==
    /\ \A n1, n2 \in CategoryNames, t1, t2 \in Timestamps :
          ZipPath(n1, t1) = ZipPath(n2, t2) => n1 = n2 /\ t1 = t2
    /\ \A r \in DOMAIN worker :
          Cardinality(PathsOf(r)) = Len(worker[r].tasks)
    /\ \A r1, r2 \in DOMAIN worker :
          worker[r1].timestamp # worker[r2].timestamp =>
              PathsOf(r1) \cap PathsOf(r2) = {}

C15_Step ==
    \A r \in DOMAIN worker :
        StepOfWorker(r) =>
            \A p \in Paths :
                disk'[p] # disk[p] =>
                    /\ p \in PathsOf(r)
                    /\ \A r2 \in DOMAIN worker :
                          worker[r2].timestamp # worker[r].timestamp =>
                              \A k \in DOMAIN worker[r2].created :
                                  worker[r2].created[k][1] # p

C15_DistinctPaths == []C15_State /\ [][C15_Step]_vars

\* Two runs of the same category with different timestamps have each written
\* their archive, and both archives are in the destination folder.
C15_Witness ==
    \E r1, r2 \in DOMAIN worker :
        /\ worker[r1].timestamp # worker[r2].timestamp
        /\ worker[r1].tasks = worker[r2].tasks
        /\ worker[r1].created # <<>> /\ worker[r2].created # <<>>
        /\ worker[r1].created[1][1] # worker[r2].created[1][1]
        /\ disk[worker[r1].created[1][1]].entries = <<ManifestEntry>>
        /\ disk[worker[r2].created[1][1]].entries = <<ManifestEntry>>

-----------------------------------------------------------------------------
\* The place of the category `name` among the tasks.
Pos(tasks, name) == CHOOSE i \in DOMAIN tasks : tasks[i].name = name

\* The progress messages the run has put for the archive of `name`.
ProgressFor(r, name) ==
    SelectSeq(OfType(OfRun(Emitted, r), "progress"),
              LAMBDA m : m.current.name = name)

(* C16: planning precedes execution and is not repeated.  While a run      *)
(* plans, it has opened no archive and put no progress message; the        *)
(* planned list is set in the planning step and never changes after it,    *)
(* also when the folders change meanwhile; the archives are written in the *)
(* order of the plan, which is the order of the tasks, each with exactly   *)
(* its planned files in their order; and in each archive manifest.json is  *)
(* written and its progress message put before any file.                   *)
C16_State ==
    \A r \in DOMAIN worker :
        LET w == worker[r]
        IN  /\ w.pc = "plan" =>
                  /\ w.existing = <<>> /\ w.created = <<>> /\ w.ai = 0
                  /\ OfType(OfRun(Emitted, r), "progress") = <<>>
                  /\ \A p \in PathsOf(r) : disk[p] = NoFile
            /\ \A i, j \in DOMAIN w.existing :
                  i < j => Pos(w.tasks, w.existing[i].name) <
                               Pos(w.tasks, w.existing[j].name)
            /\ \A i \in DOMAIN w.created :
                  /\ w.created[i] = <<ZipPath(w.existing[i].name, w.timestamp),
                                      Len(w.existing[i].files)>>
                  /\ disk[w.created[i][1]].entries = PlannedEntries(w.existing[i])
            /\ \A i \in DOMAIN w.existing :
                  LET e == w.existing[i]
                      file == disk[ZipPath(e.name, w.timestamp)]
                      pr == ProgressFor(r, e.name)
                  IN  /\ i > w.ai => file = NoFile /\ pr = <<>>
                      /\ (i = w.ai /\ w.pc = "files") =>
                            file.entries =
                                SubSeq(PlannedEntries(e), 1, w.idx + 1)
                      /\ Len(file.entries) >= 2 =>
                            /\ file.entries[1] = ManifestEntry
                            /\ pr # <<>>
                      /\ \A k \in DOMAIN pr :
                            IF k = 1 THEN pr[k].current.item = 0
                            ELSE /\ pr[k].current.item > pr[k - 1].current.item
                                 /\ pr[k].current.item <= Len(file.entries) - 1

C16_Step ==
    \A r \in DOMAIN worker :
        /\ worker'[r].existing # worker[r].existing => worker[r].pc = "plan"
        /\ worker[r].pc # "plan" => worker'[r].pc # "plan"
        /\ worker'[r].ai \in {worker[r].ai, worker[r].ai + 1}

C16_PlanThenExecute == []C16_State /\ [][C16_Step]_vars

\* A run has ended with done, having written two archives, and a folder has
\* more files now than the run planned (and archived) for it.
C16_Witness ==
    \E r \in DOMAIN worker :
        LET w == worker[r]
        IN  /\ Succeeded(r)
            /\ Len(w.created) = 2
            /\ \E i \in DOMAIN w.existing :
                  /\ w.existing[i].files # <<>>
                  /\ fs[w.existing[i].folder].files > Len(w.existing[i].files)
                  /\ w.created[i][2] = Len(w.existing[i].files)

-----------------------------------------------------------------------------
\* make_backup is invoked while a watched process runs, the user answers no,
\* and the checks before the warning pass.
Declined ==
    /\ Preflight(is_working, sel, dest_exists, TRUE) = "start"
    /\ \E now \in Stamps : make_backup(TRUE, FALSE, now)

(* C17: when the game is found running and the user declines to continue,  *)
(* make_backup returns before it plans anything: it puts no start message, *)
(* starts no worker and creates no archive, and it leaves the busy flag,   *)
(* the button and the progress bar and text as they are; only the status   *)
(* text changes, to "Cancelled.".                                          *)
C17_DeclinedStep ==
    Declined =>
        /\ status' = "Cancelled."
        /\ progress_queue' = progress_queue
        /\ worker' = worker
        /\ disk' = disk
        /\ is_working' = is_working
        /\ btn_backup' = btn_backup
        /\ progress_bar' = progress_bar
        /\ progress_text' = progress_text
        /\ dialog' = dialog
        /\ handled' = handled

C17_Declined == [][C17_DeclinedStep]_vars

\* An invocation was cancelled after a run that ended with done: the progress
\* state is still the one that run left.
C17_Witness ==
    /\ status = "Cancelled."
    /\ Len(worker) = 1 /\ Over(1) /\ Succeeded(1)
    /\ progress_text = "Done." /\ progress_bar = <<1, 1>>
    /\ is_working = FALSE /\ btn_backup = "normal"
    /\ clicks = 0

-----------------------------------------------------------------------------
\* The worker thread of run r has not put its terminal message yet.
Active(r) == worker[r].pc # "end"

StartHandled(r) == \E i \in DOMAIN handled : handled[i] = StartMsg(r)

(* C18 as claimed: the busy flag tracks the worker: while a worker thread  *)
(* has not put its terminal message and its start message has been        *)
(* handled, _is_working is True; so _is_working is never False with an     *)
(* empty queue while a worker is active.                                   *)
C18_BusyTracksWorker ==
    /\ \A r \in DOMAIN worker : (Active(r) /\ StartHandled(r)) => is_working
    /\ ~(~is_working /\ progress_queue = <<>>
            /\ \E r \in DOMAIN worker : Active(r))

=============================================================================
